---------------------------- MODULE Spec2Model ----------------------------
(***************************************************************************)
(* A model of the WinGo prediction service: the ensemble engine            *)
(* (src/lib/ensembleEngine.js), the history provider                        *)
(* (src/lib/dataFetcher.js), the cache store (src/lib/cacheManager.js) and *)
(* the two HTTP handlers (src/api/predict.js, src/api/history.js).         *)
(*                                                                         *)
(* Numbers.  The code computes in IEEE doubles.  The model computes in     *)
(* exact rationals extended with NaN and the two infinities (JsNum below), *)
(* with JavaScript's rules for division by zero and for comparisons with   *)
(* NaN.  Rounding error of doubles is not modelled.  A standard deviation  *)
(* is the one irrational quantity; every use of it in the code is a        *)
(* comparison, which the model decides on signed squares (SignedSquare).   *)
(***************************************************************************)
EXTENDS Integers, Sequences, FiniteSets, TLC

(***************************************************************************)
(* JavaScript numbers                                                      *)
(***************************************************************************)
RECURSIVE GCD(_, _)
GCD(a, b) == IF b = 0 THEN a ELSE GCD(b, a % b)

IntAbs(x) == IF x < 0 THEN -x ELSE x

\* The rational n/d in lowest terms, d > 0.
Num(n, d) ==
  LET g == GCD(IntAbs(n), IntAbs(d))
      s == IF d < 0 THEN -1 ELSE 1
  IN [k |-> "num", n |-> s * (n \div g), d |-> s * (d \div g)]

NaN == [k |-> "nan", n |-> 0, d |-> 1]
PosInf == [k |-> "inf", n |-> 1, d |-> 1]
NegInf == [k |-> "inf", n |-> -1, d |-> 1]
Zero == Num(0, 1)
IntNum(i) == Num(i, 1)

Sign(x) == IF x.n > 0 THEN 1 ELSE IF x.n < 0 THEN -1 ELSE 0
InfOfSign(s) == IF s > 0 THEN PosInf ELSE NegInf

JsNeg(x) == IF x.k = "nan" THEN NaN ELSE [x EXCEPT !.n = -x.n]

JsAbs(x) == IF x.k = "nan" THEN NaN ELSE [x EXCEPT !.n = IntAbs(x.n)]

JsAdd(x, y) ==
  IF x.k = "nan" \/ y.k = "nan" THEN NaN
  ELSE IF x.k = "inf" /\ y.k = "inf" THEN (IF x.n = y.n THEN x ELSE NaN)
  ELSE IF x.k = "inf" THEN x
  ELSE IF y.k = "inf" THEN y
  ELSE Num(x.n * y.d + y.n * x.d, x.d * y.d)

JsSub(x, y) == JsAdd(x, JsNeg(y))

JsMul(x, y) ==
  IF x.k = "nan" \/ y.k = "nan" THEN NaN
  ELSE IF x.k = "inf" \/ y.k = "inf"
       THEN (IF Sign(x) * Sign(y) = 0 THEN NaN ELSE InfOfSign(Sign(x) * Sign(y)))
  ELSE Num(x.n * y.n, x.d * y.d)

\* Division; every zero divisor of the engine is a +0 (a mean of
\* non-negative numbers, a standard deviation, a sum of weights).
JsDiv(x, y) ==
  IF x.k = "nan" \/ y.k = "nan" THEN NaN
  ELSE IF x.k = "inf" /\ y.k = "inf" THEN NaN
  ELSE IF x.k = "inf" THEN InfOfSign(Sign(x) * (IF Sign(y) < 0 THEN -1 ELSE 1))
  ELSE IF y.k = "inf" THEN Zero
  ELSE IF y.n = 0 THEN (IF x.n = 0 THEN NaN ELSE InfOfSign(Sign(x)))
  ELSE Num(x.n * y.d, x.d * y.n)

\* a/b > c/d for b, d > 0, decided on the integer parts and then on the
\* remainders, so that no product is formed.
RECURSIVE FracGt(_, _, _, _)
FracGt(a, b, c, d) ==
  IF a \div b # c \div d THEN a \div b > c \div d
  ELSE IF a % b = 0 THEN FALSE
  ELSE IF c % d = 0 THEN TRUE
  ELSE FracGt(d, c % d, b, a % b)

\* x > y; false when either is NaN.
JsGt(x, y) ==
  IF x.k = "nan" \/ y.k = "nan" THEN FALSE
  ELSE IF x.k = "inf" /\ y.k = "inf" THEN x.n > y.n
  ELSE IF x.k = "inf" THEN x.n > 0
  ELSE IF y.k = "inf" THEN y.n < 0
  ELSE IF \A i \in {x.n, x.d, y.n, y.d} : IntAbs(i) <= 46340
       THEN x.n * y.d > y.n * x.d       \* the products are integers of TLC
  ELSE FracGt(x.n, x.d, y.n, y.d)

JsLt(x, y) == JsGt(y, x)

JsEq(x, y) == x.k # "nan" /\ y.k # "nan" /\ x = y

JsGe(x, y) == JsGt(x, y) \/ JsEq(x, y)

\* Math.max(a, b)
JsMax(x, y) ==
  IF x.k = "nan" \/ y.k = "nan" THEN NaN ELSE IF JsGt(y, x) THEN y ELSE x

\* z * |z|: strictly increasing in z, so z > c  <=>  z|z| > c|c|.
SignedSquare(x) == JsMul(x, JsAbs(x))

\* Number.prototype.toFixed(2): the decimal string with two fraction digits,
\* nearest to x, the larger one on a tie; as [units, hundredths], or "NaN" /
\* "Infinity" for the values that have no digits.
toFixed2(x) ==
  IF x.k = "nan" THEN [text |-> "NaN", units |-> 0, hundredths |-> 0]
  ELSE IF x.k = "inf" THEN [text |-> "Infinity", units |-> x.n, hundredths |-> 0]
  ELSE LET a == IntAbs(x.n)
           h == (2 * a * 100 + x.d) \div (2 * x.d)
       IN [text |-> IF x.n < 0 /\ h > 0 THEN "-digits" ELSE "digits",
           units |-> h \div 100, hundredths |-> h % 100]

(***************************************************************************)
(* Sequences as JavaScript arrays (index 0 of the code is index 1 here)    *)
(***************************************************************************)
Min2(a, b) == IF a < b THEN a ELSE b
Max2(a, b) == IF a > b THEN a ELSE b

\* Array.prototype.slice(from, to) for 0 <= from <= to.
Slice(s, from, to) == SubSeq(s, from + 1, Min2(to, Len(s)))

\* data.map(d => d.number), data.map(d => d.outcome)
Numbers(data) == [i \in 1..Len(data) |-> data[i].number]
Outcomes(data) == [i \in 1..Len(data) |-> data[i].outcome]

\* The array with these elements, each evaluated once.
ArrayOf(f) == f \o <<>>

RECURSIVE SumRange(_, _, _)
\* s[lo] + ... + s[hi], summed by halves.
SumRange(s, lo, hi) ==
  IF lo > hi THEN 0
  ELSE IF lo = hi THEN s[lo]
  ELSE SumRange(s, lo, (lo + hi) \div 2) + SumRange(s, (lo + hi) \div 2 + 1, hi)

SumSeq(s) == SumRange(s, 1, Len(s))

\* _.mean: the sum over the length; NaN (0/0) for an empty array.
mean(numbers) == JsDiv(IntNum(SumSeq(numbers)), IntNum(Len(numbers)))


(***************************************************************************)
(* The model population (EnsembleEngine.initializeModels)                  *)
(***************************************************************************)
TrendCount == 48
MeanReversionCount == 30
PatternCount == 24
StatisticalCount == 18

\* Mutant: the loop runs once too often.
createTrendModelsOffByOne(count) ==
  [j \in 1..(count + 1) |->
     LET i == j - 1
     IN [type |-> "TREND_FOLLOWING",
         id |-> <<"TREND", i>>,
         weight |-> JsDiv(Num(4, 10), IntNum(count)),
         window |-> 5 + (i % 15),
         threshold |-> JsAdd(Num(5, 10), JsMul(IntNum(i), Num(1, 100)))]]

\* A model's predict closure is the dispatch ModelPredict below on its type
\* and parameters.
createTrendModels(count) ==
  [j \in 1..count |->
     LET i == j - 1
     IN [type |-> "TREND_FOLLOWING",
         id |-> <<"TREND", i>>,
         weight |-> JsDiv(Num(4, 10), IntNum(count)),
         window |-> 5 + (i % 15),
         threshold |-> JsAdd(Num(5, 10), JsMul(IntNum(i), Num(1, 100)))]]

createMeanReversionModels(count) ==
  [j \in 1..count |->
     LET i == j - 1
     IN [type |-> "MEAN_REVERSION",
         id |-> <<"MR", i>>,
         weight |-> JsDiv(Num(25, 100), IntNum(count)),
         lookback |-> 10 + (i % 20),
         deviation |-> JsAdd(IntNum(1), JsMul(IntNum(i), Num(5, 100)))]]

createPatternModels(count) ==
  [j \in 1..count |->
     LET i == j - 1
     IN [type |-> "PATTERN_RECOGNITION",
         id |-> <<"PATTERN", i>>,
         weight |-> JsDiv(Num(2, 10), IntNum(count)),
         patternLength |-> 3 + (i % 7),
         confidence |-> JsAdd(Num(6, 10), JsMul(IntNum(i), Num(2, 100)))]]

createStatisticalModels(count) ==
  [j \in 1..count |->
     LET i == j - 1
     IN [type |-> "STATISTICAL",
         id |-> <<"STAT", i>>,
         weight |-> JsDiv(Num(15, 100), IntNum(count)),
         method |-> i % 4]]

initializeModels ==
  createTrendModels(TrendCount) \o createMeanReversionModels(MeanReversionCount)
    \o createPatternModels(PatternCount) \o createStatisticalModels(StatisticalCount)

(***************************************************************************)
(* Per-family prediction functions.  Each returns "BIG" or "SMALL", or     *)
(* "THROW" when the code raises an exception.                              *)
(***************************************************************************)
\* Mutant: a zero momentum yields no vote.
trendFollowingPredictionNoVote(data, windowSize, threshold) ==
  IF Len(data) < windowSize + 1 THEN "BIG"
  ELSE
    LET recentNumbers == Numbers(Slice(data, 0, windowSize))
        previousNumbers == Numbers(Slice(data, windowSize, windowSize * 2))
        trendStrength == JsDiv(JsSub(mean(recentNumbers), mean(previousNumbers)),
                               mean(previousNumbers))
    IN IF JsGt(JsAbs(trendStrength), threshold)
       THEN (IF JsGt(trendStrength, Zero) THEN "BIG" ELSE "SMALL")
       ELSE LET momentum == recentNumbers[1] - recentNumbers[Len(recentNumbers)]
            IN IF momentum > 0 THEN "BIG"
               ELSE IF momentum < 0 THEN "SMALL" ELSE "NEUTRAL"

\* Mutant: the momentum is taken from the newest to the oldest of the window.
trendFollowingPredictionOldestFirst(data, windowSize, threshold) ==
  IF Len(data) < windowSize + 1 THEN "BIG"
  ELSE
    LET recentNumbers == Numbers(Slice(data, 0, windowSize))
        previousNumbers == Numbers(Slice(data, windowSize, windowSize * 2))
        trendStrength == JsDiv(JsSub(mean(recentNumbers), mean(previousNumbers)),
                               mean(previousNumbers))
    IN IF JsGt(JsAbs(trendStrength), threshold)
       THEN (IF JsGt(trendStrength, Zero) THEN "BIG" ELSE "SMALL")
       ELSE LET momentum == recentNumbers[Len(recentNumbers)] - recentNumbers[1]
            IN IF momentum > 0 THEN "BIG" ELSE "SMALL"

trendFollowingPrediction(data, windowSize, threshold) ==
  IF Len(data) < windowSize + 1 THEN "BIG"
  ELSE
    LET recentNumbers == Numbers(Slice(data, 0, windowSize))
        previousNumbers == Numbers(Slice(data, windowSize, windowSize * 2))
        recentAvg == mean(recentNumbers)
        previousAvg == mean(previousNumbers)
        trendStrength == JsDiv(JsSub(recentAvg, previousAvg), previousAvg)
    IN IF JsGt(JsAbs(trendStrength), threshold)
       THEN (IF JsGt(trendStrength, Zero) THEN "BIG" ELSE "SMALL")
       ELSE LET momentum == recentNumbers[1] - recentNumbers[Len(recentNumbers)]
            IN IF momentum > 0 THEN "BIG" ELSE "SMALL"

Throw == [k |-> "throw", n |-> 0, d |-> 1]

\* The sum over x of (n*x - s)^2, which is n^2 times the sum of (x - s/n)^2.
SumSqDev(numbers, s, n) ==
  SumSeq([i \in 1..Len(numbers) |-> (n * numbers[i] - s) * (n * numbers[i] - s)])

\* The square of mathjs' std(numbers) (the unbiased sample variance): std
\* throws on an empty array, is 0 for one element, and otherwise is
\* sqrt(sum((x - mean)^2) / (n - 1)).
stdSquared(numbers) ==
  LET n == Len(numbers)
  IN IF n = 0 THEN Throw
     ELSE IF n = 1 THEN Zero
     ELSE Num(SumSqDev(numbers, SumSeq(numbers), n), n * n * (n - 1))

meanReversionPrediction(data, lookback, deviation) ==
  LET numbers == Numbers(Slice(data, 0, lookback))
      mean_ == mean(numbers)
      std2 == stdSquared(numbers)
  IN IF std2.k = "throw" THEN "THROW"
     ELSE
       LET current == IntNum(numbers[1])
           \* zScore|zScore|, for zScore = (current - mean) / std
           zScoreSq == JsDiv(SignedSquare(JsSub(current, mean_)), std2)
       IN IF JsGt(zScoreSq, SignedSquare(deviation)) THEN "SMALL"
          ELSE IF JsLt(zScoreSq, SignedSquare(JsNeg(deviation))) THEN "BIG"
          ELSE LET shortTerm == Slice(numbers, 0, 3)
                   shortAvg == mean(shortTerm)
               IN IF JsGe(shortAvg, mean_) THEN "BIG" ELSE "SMALL"

patternsMatch(pattern1, pattern2) ==
  IF Len(pattern1) # Len(pattern2) THEN FALSE
  ELSE \A i \in 1..Len(pattern1) : pattern1[i] = pattern2[i]

\* Mutant: the outcome counted for a match is the newest of the matching
\* window, data[i], and not the one that followed it.
PatternHitsWindowStart(data, patternLength, outcome) ==
  LET recentPattern == Outcomes(Slice(data, 0, patternLength))
  IN Cardinality({i \in patternLength..(Min2(Len(data), 50) - 1) :
       /\ patternsMatch(recentPattern, Outcomes(Slice(data, i, i + patternLength)))
       /\ (data[i + 1].outcome = "BIG") = (outcome = "BIG")})

\* The scan of patternRecognitionPrediction: the code's indices i of
\* patternLength..min(length, 50)-1 whose window matches and whose
\* following outcome data[i-1] is `outcome`.
PatternHits(data, patternLength, outcome) ==
  LET recentPattern == Outcomes(Slice(data, 0, patternLength))
  IN Cardinality({i \in patternLength..(Min2(Len(data), 50) - 1) :
       /\ patternsMatch(recentPattern, Outcomes(Slice(data, i, i + patternLength)))
       /\ (data[i].outcome = "BIG") = (outcome = "BIG")})

patternRecognitionPrediction(data, patternLength) ==
  IF Len(data) < patternLength * 2 THEN "BIG"
  ELSE
    LET bigPatterns == PatternHits(data, patternLength, "BIG")
        smallPatterns == PatternHits(data, patternLength, "SMALL")
    IN IF bigPatterns + smallPatterns = 0
       THEN trendFollowingPrediction(data, 5, Num(3, 10))
       ELSE IF bigPatterns > smallPatterns THEN "BIG" ELSE "SMALL"

(***************************************************************************)
(* Statistical family                                                      *)
(***************************************************************************)
\* A non-negative integer of any size as its digits in base 10000, least
\* significant first (the exponential moving average of 20 numbers has 19
\* decimals, beyond the range of the integers of TLC).
RECURSIVE Digits(_)
Digits(n) == IF n = 0 THEN <<>> ELSE <<n % 10000>> \o Digits(n \div 10000)

RECURSIVE DigitsAdd(_, _, _)
DigitsAdd(a, b, carry) ==
  IF a = <<>> /\ b = <<>> THEN Digits(carry)
  ELSE LET x == IF a = <<>> THEN 0 ELSE a[1]
           y == IF b = <<>> THEN 0 ELSE b[1]
           t == x + y + carry
       IN <<t % 10000>> \o DigitsAdd(IF a = <<>> THEN a ELSE Tail(a),
                                     IF b = <<>> THEN b ELSE Tail(b), t \div 10000)

RECURSIVE DigitsScale(_, _, _)
\* a * m for a small non-negative m
DigitsScale(a, m, carry) ==
  IF a = <<>> THEN Digits(carry)
  ELSE LET t == a[1] * m + carry
       IN <<t % 10000>> \o DigitsScale(Tail(a), m, t \div 10000)

\* a * 10^e
DigitsShift(a, e) ==
  LET low == CASE e % 4 = 0 -> 1 [] e % 4 = 1 -> 10 [] e % 4 = 2 -> 100 [] OTHER -> 1000
  IN [i \in 1..(e \div 4) |-> 0] \o DigitsScale(a, low, 0)

RECURSIVE DigitsTrim(_)
DigitsTrim(a) ==
  IF a # <<>> /\ a[Len(a)] = 0 THEN DigitsTrim(SubSeq(a, 1, Len(a) - 1)) ELSE a

RECURSIVE DigitsGtFrom(_, _, _)
DigitsGtFrom(a, b, i) ==
  IF i = 0 THEN FALSE
  ELSE IF a[i] # b[i] THEN a[i] > b[i]
  ELSE DigitsGtFrom(a, b, i - 1)

DigitsGt(a, b) ==
  LET x == DigitsTrim(a)
      y == DigitsTrim(b)
  IN IF Len(x) # Len(y) THEN Len(x) > Len(y) ELSE DigitsGtFrom(x, y, Len(x))

RECURSIVE EmaFrom(_, _, _)
\* The loop of calculateEMA for alpha = alphaTenths/10: `ema` is
\* [digits, exp], the value digits / 10^exp after ema.exp rounds, the next
\* round being that of the code's i = ema.exp + 1.
EmaFrom(numbers, alphaTenths, ema) ==
  IF ema.exp + 2 > Len(numbers) THEN ema
  ELSE EmaFrom(numbers, alphaTenths,
         [digits |-> DigitsAdd(
                       DigitsShift(Digits(alphaTenths * numbers[ema.exp + 2]), ema.exp),
                       DigitsScale(ema.digits, 10 - alphaTenths, 0), 0),
          exp |-> ema.exp + 1])

\* calculateEMA(numbers, alpha) of a non-empty array.
calculateEMA(numbers, alphaTenths) ==
  EmaFrom(numbers, alphaTenths, [digits |-> Digits(numbers[1]), exp |-> 0])

\* numbers[0] > ema
AboveEma(x, ema) == DigitsGt(DigitsShift(Digits(x), ema.exp), ema.digits)

\* The loop of calculateRSI: the gains (gain = TRUE) or the losses among
\* the changes numbers[i-1] - numbers[i], i = 1..period.
RsiSum(numbers, period, gain) ==
  SumSeq([i \in 1..period |->
            LET change == numbers[i] - numbers[i + 1]
            IN IF gain THEN (IF change > 0 THEN change ELSE 0)
               ELSE (IF change > 0 THEN 0 ELSE IntAbs(change))])

calculateRSI(numbers, period) ==
  IF Len(numbers) < period + 1 THEN IntNum(50)
  ELSE LET gains == RsiSum(numbers, period, TRUE)
           losses == RsiSum(numbers, period, FALSE)
           avgGain == JsDiv(IntNum(gains), IntNum(period))
           avgLoss == JsDiv(IntNum(losses), IntNum(period))
           rs == JsDiv(avgGain, avgLoss)
       IN JsSub(IntNum(100), JsDiv(IntNum(100), JsAdd(IntNum(1), rs)))

\* Math.max(...s) and Math.min(...s) of a non-empty array.
MaxSeq(s) == CHOOSE x \in {s[i] : i \in 1..Len(s)} : \A i \in 1..Len(s) : x >= s[i]
MinSeq(s) == CHOOSE x \in {s[i] : i \in 1..Len(s)} : \A i \in 1..Len(s) : x <= s[i]

\* Of an empty array Math.max() is -Infinity, Math.min() is Infinity and
\* numbers[0] is undefined: the level is NaN.
fibonacciLevel(numbers) ==
  IF numbers = <<>> THEN NaN
  ELSE LET high == MaxSeq(numbers)
           low == MinSeq(numbers)
           current == numbers[1]
           range == high - low
       IN IF range = 0 THEN Num(5, 10)
          ELSE JsDiv(IntNum(current - low), IntNum(range))

\* bollingerPosition(numbers) with period = 20 and stdDev = 2.  The bands are
\* mean +/- stdDev*std; the position within the bands,
\* (current - mean) / (stdDev*std), is returned as its signed square.
bollingerPosition(numbers, period, stdDev) ==
  IF Len(numbers) < period THEN Zero
  ELSE LET slice == Slice(numbers, 0, period)
           mean_ == mean(slice)
           std2 == stdSquared(slice)
           band2 == JsMul(IntNum(stdDev * stdDev), std2)
           current == IntNum(numbers[1])
           diff2 == SignedSquare(JsSub(current, mean_))
       IN IF JsGt(diff2, band2) THEN IntNum(1)
          ELSE IF JsLt(diff2, JsNeg(band2)) THEN IntNum(-1)
          ELSE JsDiv(diff2, band2)

statisticalPrediction(data, method) ==
  LET numbers == Numbers(Slice(data, 0, 20))
  IN CASE method = 0 ->
            \* undefined > undefined is false
            IF numbers = <<>> THEN "SMALL"
            ELSE IF AboveEma(numbers[1], calculateEMA(numbers, 3)) THEN "BIG"
            ELSE "SMALL"
       [] method = 1 ->
            IF JsGt(calculateRSI(numbers, 14), IntNum(50)) THEN "BIG" ELSE "SMALL"
       [] method = 2 ->
            IF JsGt(fibonacciLevel(numbers), Num(5, 10)) THEN "BIG" ELSE "SMALL"
       [] method = 3 ->
            IF JsGt(bollingerPosition(numbers, 20, 2), Zero) THEN "BIG" ELSE "SMALL"
       [] OTHER -> "BIG"

\* model.predict(data): the closure a model was created with.
ModelPredict(model, data) ==
  CASE model.type = "TREND_FOLLOWING" ->
         trendFollowingPrediction(data, model.window, model.threshold)
    [] model.type = "MEAN_REVERSION" ->
         meanReversionPrediction(data, model.lookback, model.deviation)
    [] model.type = "PATTERN_RECOGNITION" ->
         patternRecognitionPrediction(data, model.patternLength)
    [] model.type = "STATISTICAL" ->
         statisticalPrediction(data, model.method)

(***************************************************************************)
(* Aggregation, trend and stake                                            *)
(***************************************************************************)
analyzeTrend(numbers) ==
  IF Len(numbers) < 10 THEN [direction |-> "NEUTRAL", strength |-> Zero]
  ELSE
    LET shortTerm == mean(Slice(numbers, 0, 5))
        mediumTerm == mean(Slice(numbers, 0, 15))
        longTerm == mean(Slice(numbers, 0, 30))
    IN IF JsGt(shortTerm, mediumTerm) /\ JsGt(mediumTerm, longTerm)
       THEN [direction |-> "UPWARD",
             strength |-> JsAbs(JsDiv(JsSub(shortTerm, longTerm), longTerm))]
       ELSE IF JsLt(shortTerm, mediumTerm) /\ JsLt(mediumTerm, longTerm)
       THEN [direction |-> "DOWNWARD",
             strength |-> JsAbs(JsDiv(JsSub(longTerm, shortTerm), longTerm))]
       ELSE [direction |-> "NEUTRAL", strength |-> JsAbs(Zero)]

\* The unrounded stake of calculateStake, with baseStake = 1.
StakeOf(confidence, trendStrength) ==
  LET baseStake == IntNum(1)
      confidenceMultiplier == JsDiv(confidence, IntNum(100))
      trendMultiplier == JsAdd(IntNum(1), JsMul(trendStrength, IntNum(2)))
  IN JsMul(JsMul(baseStake, confidenceMultiplier), trendMultiplier)

\* Mutant: the confidence threshold of the high tier is inclusive.
HighTierInclusive(confidence, trendStrength) ==
  JsGe(confidence, IntNum(75)) /\ JsGt(trendStrength, Num(1, 10))

\* confidence > 75 && trendStrength > 0.1
HighTier(confidence, trendStrength) ==
  JsGt(confidence, IntNum(75)) /\ JsGt(trendStrength, Num(1, 10))

\* confidence > 65
MediumTier(confidence) == JsGt(confidence, IntNum(65))

calculateStake(confidence, trendStrength) ==
  LET stake == StakeOf(confidence, trendStrength)
  IN IF HighTier(confidence, trendStrength)
     THEN [amount |-> toFixed2(stake), level |-> "HIGH_CONFIDENCE", risk |-> "LOW"]
     ELSE IF MediumTier(confidence)
     THEN [amount |-> toFixed2(JsMul(stake, Num(7, 10))),
           level |-> "MEDIUM", risk |-> "MEDIUM"]
     ELSE [amount |-> toFixed2(JsMul(stake, Num(3, 10))),
           level |-> "LOW", risk |-> "HIGH"]

RECURSIVE VoteSum(_, _, _, _)
\* The forEach of predictNextOutcome over predictions[lo..hi]: the sum of
\* the weights of the entries whose prediction is `outcome` (summed by
\* halves: the sum of rationals does not depend on the order).
VoteSum(predictions, lo, hi, outcome) ==
  IF lo > hi THEN Zero
  ELSE IF lo = hi
  THEN (IF predictions[lo].prediction = outcome THEN predictions[lo].weight ELSE Zero)
  ELSE LET mid == (lo + hi) \div 2
       IN JsAdd(VoteSum(predictions, lo, mid, outcome),
                VoteSum(predictions, mid + 1, hi, outcome))

\* Mutant: a tie goes to BIG.
OutcomeOfTieBig(bigVotes, smallVotes) == IF JsGe(bigVotes, smallVotes) THEN "BIG" ELSE "SMALL"

\* bigVotes > smallVotes ? 'BIG' : 'SMALL'
OutcomeOf(bigVotes, smallVotes) == IF JsGt(bigVotes, smallVotes) THEN "BIG" ELSE "SMALL"

\* predictNextOutcome after its Promise.all: `predictions` are the entries the
\* models resolved to, in the order of this.models.  The fields of `locals`
\* are the function's local variables; nextIssueTime (the wall clock plus
\* 60 s) is left out.
Aggregate(predictions, historicalData, modelCount) ==
  LET numbers == Numbers(historicalData)
      bigVotes == VoteSum(predictions, 1, Len(predictions), "BIG")
      smallVotes == VoteSum(predictions, 1, Len(predictions), "SMALL")
      modelResults == [i \in 1..Len(predictions) |->
                         [model |-> predictions[i].modelId,
                          prediction |-> predictions[i].prediction,
                          weight |-> predictions[i].weight]]
      totalVotes == JsAdd(bigVotes, smallVotes)
      confidence == JsMul(JsDiv(JsMax(bigVotes, smallVotes), totalVotes), IntNum(100))
      outcome == OutcomeOf(bigVotes, smallVotes)
      trend == analyzeTrend(numbers)
      suggestedStake == calculateStake(confidence, trend.strength)
  IN [outcome |-> outcome,
      confidence |-> toFixed2(confidence),
      modelCount |-> modelCount,
      trendDirection |-> trend.direction,
      trendStrength |-> trend.strength,
      suggestedStake |-> suggestedStake,
      modelBreakdown |-> [bigVotes |-> toFixed2(JsMul(bigVotes, IntNum(100))),
                          smallVotes |-> toFixed2(JsMul(smallVotes, IntNum(100))),
                          activeModels |-> Len(modelResults)],
      locals |-> [bigVotes |-> bigVotes, smallVotes |-> smallVotes,
                  confidence |-> confidence, modelResults |-> modelResults]]

\* The entry one model's async callback resolves to (or "THROW" as the
\* prediction when model.predict raises and the callback's promise rejects).
Entry(model, data) ==
  [modelId |-> model.id, prediction |-> ModelPredict(model, data),
   weight |-> model.weight, type |-> model.type]

Rejected == [state |-> "rejected"]
Resolved(v) == [state |-> "resolved", value |-> v]
NoResult == [state |-> "none"]

\* predictNextOutcome(historicalData) of an engine whose this.models is
\* `ms`, the models evaluated in order: the promise it returns, settled.
predictNextOutcome(ms, historicalData) ==
  LET predictions == ArrayOf([i \in 1..Len(ms) |-> Entry(ms[i], historicalData)])
  IN IF \E i \in 1..Len(ms) : predictions[i].prediction = "THROW"
     THEN Rejected
     ELSE Resolved(Aggregate(predictions, historicalData, Len(ms)))

(***************************************************************************)
(* State                                                                   *)
(***************************************************************************)
VARIABLES
  models,          \* engine.models
  historicalData,  \* the argument of the engine's current (last) call
  prediction,      \* what the last call settled to
  callPc,          \* a call in steps: "idle", "awaiting" (Promise.all), "done"
  slots,           \* a call in steps: the promise of each model's callback
  evals,           \* a call in steps: how often each model.predict has run
  lastResumed,     \* a call in steps: the callback that resumed last (0: none)
  stakeArgs,       \* the arguments of a calculateStake call
  stakeResult,     \* and what it returned
  modelIndex,      \* the model of a single model.predict call (0: none)
  vote,            \* and what it returned
  now,             \* Date.now(), in ms
  fetchers,        \* the DataFetcher of each handler module: cachedData, lastFetchTime
  redisClient,     \* cache.redisClient: "null", or the client, "connecting" or "ready"
  redisStore,      \* what Redis holds under wingo:predictions:latest
  localCache,      \* what cache.localCache holds under that key
  predictionCache, \* predict.js: the module's statistics object
  reqs,            \* the handler invocations in progress, one a slot
  started,         \* how many invocations have begun
  engineCalls      \* how many times a handler has called the engine

engineVars == <<models, historicalData, prediction>>
concVars == <<callPc, slots, evals, lastResumed>>
stakeVars == <<stakeArgs, stakeResult>>
voteVars == <<modelIndex, vote>>
handlerVars == <<now, fetchers, redisClient, redisStore, localCache,
                 predictionCache, reqs, started, engineCalls>>
vars == <<engineVars, concVars, stakeVars, voteVars, handlerVars>>

\* The fewest records the predict handler passes to the engine.
MinHistory == 50

(***************************************************************************)
(* Strings and parsing.  A string is the sequence of its characters.       *)
(***************************************************************************)
DigitChars == <<"0", "1", "2", "3", "4", "5", "6", "7", "8", "9">>

IsDigit(c) == \E d \in 1..10 : DigitChars[d] = c

DigitValue(c) == (CHOOSE d \in 1..10 : DigitChars[d] = c) - 1

\* s.split(',')[0]: the characters before the first comma.
SplitFirst(s) ==
  LET commas == {i \in 1..Len(s) : s[i] = ","}
  IN IF commas = {} THEN s
     ELSE SubSeq(s, 1, (CHOOSE i \in commas : \A j \in commas : i <= j) - 1)

RECURSIVE ParseDigits(_, _, _)
\* The value of the decimal digits of s from index i on, up to the first
\* character that is not a digit.
ParseDigits(s, i, acc) ==
  IF i > Len(s) \/ ~IsDigit(s[i]) THEN acc
  ELSE ParseDigits(s, i + 1, acc * 10 + DigitValue(s[i]))

\* parseInt(s) of a string without leading blanks, sign or radix prefix: the
\* number of its leading digits, NaN when it has none.
parseInt(s) ==
  IF s = <<>> \/ ~IsDigit(s[1]) THEN NaN ELSE IntNum(ParseDigits(s, 1, 0))

\* x || dflt for a number x: NaN and 0 are falsy.
OrElse(x, dflt) == IF x.k = "nan" \/ (x.k = "num" /\ x.n = 0) THEN dflt ELSE x

\* String(undefined), what parseInt makes of a missing query parameter.
Undefined == <<"u", "n", "d", "e", "f", "i", "n", "e", "d">>

(***************************************************************************)
(* DataFetcher                                                             *)
(***************************************************************************)
CacheDuration == 3000

\* _determineOutcome(resultString)
determineOutcome(resultString) ==
  LET firstNum == OrElse(parseInt(SplitFirst(resultString)), Zero)
  IN IF JsGe(firstNum, IntNum(50)) THEN "BIG" ELSE "SMALL"

\* The record fetchHistoricalData makes of an item of data.data.list (its
\* timestamp, the wall clock of the fetch, is left out).
Transform(item) ==
  [issue |-> item.issue,
   result |-> item.result,
   number |-> OrElse(parseInt(SplitFirst(item.result)), Zero).n,
   outcome |-> determineOutcome(item.result)]

\* Array.prototype.reverse
Reverse(s) == [i \in 1..Len(s) |-> s[Len(s) - i + 1]]

\* data.data.list.map(...).reverse()
TransformList(list) == ArrayOf(Reverse([i \in 1..Len(list) |-> Transform(list[i])]))

\* this.cachedData: null, or an array.
NullData == [isNull |-> TRUE, data |-> <<>>]
SomeData(d) == [isNull |-> FALSE, data |-> d]

NewFetcher == [cachedData |-> NullData, lastFetchTime |-> 0]

\* this.cachedData && (now - this.lastFetchTime) < this.cacheDuration
CacheFresh(fetcher, t) ==
  ~fetcher.cachedData.isNull /\ (t - fetcher.lastFetchTime) < CacheDuration

\* Mutant: the catch of fetchHistoricalData lets the error through.
fetchCatchRethrows(fetcher, limit) == Rejected

\* The catch of fetchHistoricalData: the cached records, stale or not, or
\* an empty array.
fetchCatch(fetcher, limit) ==
  Resolved(IF ~fetcher.cachedData.isNull
           THEN Slice(fetcher.cachedData.data, 0, limit) ELSE <<>>)

RECURSIVE Runs(_, _, _)
\* The runs of equal neighbours in outcomes[lo..hi], found by halves: the
\* length of the run the range begins with (prefix), of the run it ends with
\* (suffix) and of its longest run (best).
Runs(outcomes, lo, hi) ==
  IF lo = hi THEN [len |-> 1, prefix |-> 1, suffix |-> 1, best |-> 1]
  ELSE
    LET mid == (lo + hi) \div 2
        l == Runs(outcomes, lo, mid)
        r == Runs(outcomes, mid + 1, hi)
        joined == outcomes[mid] = outcomes[mid + 1]
        across == IF joined THEN l.suffix + r.prefix ELSE 0
    IN [len |-> l.len + r.len,
        prefix |-> IF joined /\ l.prefix = l.len THEN l.len + r.prefix ELSE l.prefix,
        suffix |-> IF joined /\ r.suffix = r.len THEN r.len + l.suffix ELSE r.suffix,
        best |-> Max2(Max2(l.best, r.best), across)]

\* The streak loop of analyzeTrends over a non-empty array: currentStreak
\* restarts at every index whose outcome differs from the one before, so it
\* ends as the length of the run the array ends with, currentType as that
\* run's outcome and maxStreak as the length of the longest run.
Streaks(outcomes) ==
  LET runs == Runs(outcomes, 1, Len(outcomes))
  IN [max_streak |-> runs.best,
      current_streak |-> runs.suffix,
      streak_type |-> outcomes[Len(outcomes)]]

\* What analyzeTrends returns when there is no analysis.
NoAnalysis == [isNull |-> TRUE]

\* analyzeTrends(data); standard_deviation and volatility, the two fields
\* that take a square root, are left out.
analyzeTrends(data) ==
  IF Len(data) < 10 THEN NoAnalysis
  ELSE
    LET outcomes == Outcomes(data)
        numbers == Numbers(data)
        bigCount == Cardinality({i \in 1..Len(data) : outcomes[i] = "BIG"})
        smallCount == Cardinality({i \in 1..Len(data) : outcomes[i] = "SMALL"})
        streaks == Streaks(outcomes)
    IN [isNull |-> FALSE,
        total_samples |-> Len(data),
        big_percentage |-> toFixed2(JsMul(Num(bigCount, Len(data)), IntNum(100))),
        small_percentage |-> toFixed2(JsMul(Num(smallCount, Len(data)), IntNum(100))),
        current_streak |-> streaks.current_streak,
        streak_type |-> streaks.streak_type,
        max_streak |-> streaks.max_streak,
        average_number |-> toFixed2(mean(numbers))]

(***************************************************************************)
(* CacheManager                                                            *)
(***************************************************************************)
\* Nothing stored under the key.
NoEntry == [isSet |-> FALSE]

\* Mutant: storePrediction without its try/catch.
storePredictionNoCatch(setFulfilled) == IF setFulfilled THEN "returned" ELSE "thrown"

\* The try/catch of storePrediction around redisClient.set: whether the set
\* is fulfilled or rejected, storePrediction returns.
storePredictionCatch(setFulfilled) == "returned"

(***************************************************************************)
(* predict.js and history.js                                               *)
(***************************************************************************)
NoPrediction == [isNull |-> TRUE]
NoLastResult == [isNull |-> TRUE]

\* let predictionCache = { ... }; accuracy starts as the number 0.
NewPredictionCache ==
  [lastPrediction |-> NoPrediction,
   lastResult |-> NoLastResult,
   winStreak |-> 0,
   lossStreak |-> 0,
   totalPredictions |-> 0,
   wins |-> 0,
   accuracy |-> [text |-> "0", units |-> 0, hundredths |-> 0]]

\* Mutant: the guard of the predict handler lets 49 records through.
InsufficientDataBelow49(data) == Len(data) < MinHistory - 1

\* !historicalData || historicalData.length < 50
InsufficientData(data) == Len(data) < MinHistory

\* lastNumber >= 50 ? 'BIG' : 'SMALL'
ActualOutcome(lastNumber) == IF JsGe(lastNumber, IntNum(50)) THEN "BIG" ELSE "SMALL"

\* "Check previous prediction result": the statistics after scoring the
\* stored prediction against lastActualOutcome.
Score(pc, lastActualOutcome) ==
  IF pc.lastPrediction.isNull THEN pc
  ELSE
    LET isWin == pc.lastPrediction.prediction = lastActualOutcome
        total == pc.totalPredictions + 1
        wins == IF isWin THEN pc.wins + 1 ELSE pc.wins
    IN [pc EXCEPT !.totalPredictions = total,
                  !.wins = wins,
                  !.winStreak = IF isWin THEN pc.winStreak + 1 ELSE 0,
                  !.lossStreak = IF isWin THEN 0 ELSE pc.lossStreak + 1,
                  !.accuracy = toFixed2(JsMul(JsDiv(IntNum(wins), IntNum(total)),
                                              IntNum(100)))]

\* winLossResult
WinLoss(pc, lastActualOutcome) ==
  IF pc.lastPrediction.isNull THEN "null"
  ELSE IF pc.lastPrediction.prediction = lastActualOutcome THEN "WIN" ELSE "LOSS"

NoResponse == [code |-> 0, body |-> [status |-> "none"]]

\* res.status(200).end()
EmptyResponse == [code |-> 200, body |-> [status |-> "none"]]

InsufficientDataResponse ==
  [code |-> 200,
   body |-> [status |-> "error", message |-> "Insufficient data for prediction"]]

PredictionFailedResponse ==
  [code |-> 500, body |-> [status |-> "error", message |-> "Prediction engine failed"]]

HistoryFailedResponse ==
  [code |-> 500, body |-> [status |-> "error", message |-> "Failed to fetch history"]]

\* The success response of the predict handler (timestamps and
\* next_issue_expected, which are wall-clock values, are left out).
PredictionResponse(pc, req) ==
  LET p == req.prediction.value
      lastResult == req.fetch.value[1]
  IN [code |-> 200,
      body |-> [status |-> "success",
                previous_prediction_result |-> req.winLossResult,
                statistics |-> [accuracy |-> pc.accuracy,
                                win_streak |-> pc.winStreak,
                                total_predictions |-> pc.totalPredictions,
                                wins |-> pc.wins,
                                losses |-> pc.totalPredictions - pc.wins],
                current_prediction |-> [outcome |-> p.outcome,
                                        confidence |-> p.confidence,
                                        issue |-> lastResult.issue,
                                        model_count |-> p.modelCount,
                                        trend_direction |-> p.trendDirection,
                                        suggested_stake |-> p.suggestedStake],
                last_result |-> [issue |-> lastResult.issue,
                                 number |-> req.lastNumber,
                                 outcome |-> req.lastActualOutcome,
                                 full_result |-> lastResult.result]]]

\* The success response of the history handler.
HistoryResponse(data) ==
  [code |-> 200,
   body |-> [status |-> "success",
             count |-> Len(data),
             data |-> data,
             analysis |-> analyzeTrends(data)]]

\* A slot without an invocation.
IdleReq ==
  [handler |-> "none", method |-> "none", pc |-> "idle",
   limit |-> 0, fetchNow |-> 0, upstream |-> "none", fetch |-> NoResult,
   winLossResult |-> "null", lastNumber |-> NaN, lastActualOutcome |-> "none",
   prediction |-> NoResult, setValue |-> NoEntry, store |-> "none",
   storeExit |-> "none", response |-> NoResponse]

NumSlots == 1
Slots == 1..NumSlots

\* The state of the two handler modules after they are loaded: the
\* CacheManager has created its client and awaits connect().
NewHandlers ==
  /\ now = 0
  /\ fetchers = [h \in {"predict", "history"} |-> NewFetcher]
  /\ redisClient = "connecting"
  /\ redisStore = NoEntry
  /\ localCache = NoEntry
  /\ predictionCache = NewPredictionCache
  /\ reqs = [r \in Slots |-> IdleReq]
  /\ started = 0
  /\ engineCalls = 0

(***************************************************************************)
(* Inputs of the engine                                                    *)
(***************************************************************************)
MaxNumber == 1
MaxShortLen == 7
MaxExtra == 1

OutcomeSet == {"BIG", "SMALL"}

\* The records the engine is given: a non-negative number and an outcome
\* (the engine reads the two fields independently).
Records == [issue : {0}, number : 0..MaxNumber, outcome : OutcomeSet]

\* A history of `len` records, newest first: `head`, then `a` and `b` in turn.
Hist(head, a, b, len) ==
  [i \in 1..len |-> IF i = 1 THEN head ELSE IF i % 2 = 0 THEN a ELSE b]

InputLens == (1..MaxShortLen) \cup (MinHistory..(MinHistory + MaxExtra))

Inputs ==
  {<<>>} \cup {Hist(head, a, b, len) : head \in Records, a \in Records,
                                        b \in Records, len \in InputLens}

NoSlot == [st |-> "idle", entry |-> <<>>]
IdleConc == /\ callPc = "idle"
            /\ slots = <<>>
            /\ evals = <<>>
            /\ lastResumed = 0
NoStake == [amount |-> toFixed2(NaN), level |-> "none", risk |-> "none"]
IdleStake == /\ stakeArgs = <<NaN, NaN>>
             /\ stakeResult = NoStake
IdleVote == /\ modelIndex = 0
            /\ vote = "none"

(***************************************************************************)
(* Spec: the engine, one predictNextOutcome call a step                    *)
(***************************************************************************)
Init ==
  /\ models = initializeModels
  /\ historicalData \in Inputs
  /\ prediction = NoResult
  /\ IdleConc
  /\ IdleStake
  /\ NewHandlers
  /\ IdleVote

\* await engine.predictNextOutcome(historicalData)
Predict ==
  /\ prediction' = predictNextOutcome(models, historicalData)
  /\ UNCHANGED <<models, historicalData, concVars, stakeVars, voteVars, handlerVars>>

Next == Predict

Spec == Init /\ [][Next]_vars

(***************************************************************************)
(* Properties of the engine                                                *)
(***************************************************************************)
\* The value of a toFixed(2) string, in hundredths.
Hundredths(t) == t.units * 100 + t.hundredths

InRange50To100(x) == x.k = "num" /\ x.n >= 50 * x.d /\ x.n <= 100 * x.d

\* C1: for a history of at least 50 valid records predictNextOutcome
\* returns; the outcome is BIG or SMALL, the confidence lies in [50, 100],
\* bigVotes + smallVotes is the whole weight budget 1, and the two reported
\* vote shares sum to 100%.
C1_LongHistoryResult ==
  (Len(historicalData) >= MinHistory /\ prediction # NoResult) =>
    /\ prediction.state = "resolved"
    /\ LET r == prediction.value
       IN /\ r.outcome \in OutcomeSet
          /\ InRange50To100(r.locals.confidence)
          /\ r.confidence.text = "digits"
          /\ Hundredths(r.confidence) >= 5000
          /\ Hundredths(r.confidence) <= 10000
          /\ JsAdd(r.locals.bigVotes, r.locals.smallVotes) = IntNum(1)
          /\ Hundredths(r.modelBreakdown.bigVotes)
               + Hundredths(r.modelBreakdown.smallVotes) = 10000

\* A call on 50 or more records has returned with votes on both sides.
C1_Witness ==
  /\ Len(historicalData) >= MinHistory
  /\ prediction.state = "resolved"
  /\ prediction.value.locals.bigVotes.n > 0
  /\ prediction.value.locals.smallVotes.n > 0

\* C2: for every well-formed history, the empty and the short ones
\* included, predictNextOutcome completes without raising and every model
\* resolves to BIG or SMALL.
C2_NeverRaises ==
  prediction # NoResult =>
    /\ prediction.state = "resolved"
    /\ \A i \in 1..Len(prediction.value.locals.modelResults) :
         prediction.value.locals.modelResults[i].prediction \in OutcomeSet

\* C3: the returned outcome is BIG exactly when bigVotes is strictly
\* greater than smallVotes; on equal votes it is SMALL; it is never
\* undefined.
C3_StrictMajority ==
  prediction.state = "resolved" =>
    LET r == prediction.value
        b == r.locals.bigVotes
        s == r.locals.smallVotes
    IN /\ b.k = "num" /\ s.k = "num"
       /\ r.outcome \in OutcomeSet
       /\ (r.outcome = "BIG") <=> (b.n * s.d > s.n * b.d)
       /\ (b.n * s.d = s.n * b.d) => r.outcome = "SMALL"

\* A call has returned on a tie: 60 models voted BIG and 60 SMALL.
C3_Witness ==
  /\ prediction.state = "resolved"
  /\ prediction.value.locals.bigVotes = prediction.value.locals.smallVotes
  /\ Cardinality({i \in 1..Len(models) :
       prediction.value.locals.modelResults[i].prediction = "BIG"}) = 60
  /\ prediction.value.outcome = "SMALL"

FamilyOf(ms, type) == {i \in 1..Len(ms) : ms[i].type = type}

AllTypes == {"TREND_FOLLOWING", "MEAN_REVERSION", "PATTERN_RECOGNITION", "STATISTICAL"}

RECURSIVE WeightSum(_, _, _, _)
\* The sum of the weights of the models ms[lo..hi] whose type is in `types`.
WeightSum(ms, lo, hi, types) ==
  IF lo > hi THEN Zero
  ELSE IF lo = hi THEN (IF ms[lo].type \in types THEN ms[lo].weight ELSE Zero)
  ELSE LET mid == (lo + hi) \div 2
       IN JsAdd(WeightSum(ms, lo, mid, types), WeightSum(ms, mid + 1, hi, types))

\* C4: after construction and after any number of calls the population
\* has 120 models (48 trend, 30 mean-reversion, 24 pattern, 18 statistical),
\* every weight is positive, each family's weights sum to its share (0.40,
\* 0.25, 0.20, 0.15), all weights sum to 1, and the models are those the
\* constructor built.
C4_Population ==
  /\ Len(models) = 120
  /\ Cardinality(FamilyOf(models, "TREND_FOLLOWING")) = 48
  /\ Cardinality(FamilyOf(models, "MEAN_REVERSION")) = 30
  /\ Cardinality(FamilyOf(models, "PATTERN_RECOGNITION")) = 24
  /\ Cardinality(FamilyOf(models, "STATISTICAL")) = 18
  /\ \A i \in 1..Len(models) : JsGt(models[i].weight, Zero)
  /\ WeightSum(models, 1, Len(models), {"TREND_FOLLOWING"}) = Num(40, 100)
  /\ WeightSum(models, 1, Len(models), {"MEAN_REVERSION"}) = Num(25, 100)
  /\ WeightSum(models, 1, Len(models), {"PATTERN_RECOGNITION"}) = Num(20, 100)
  /\ WeightSum(models, 1, Len(models), {"STATISTICAL"}) = Num(15, 100)
  /\ WeightSum(models, 1, Len(models), AllTypes) = IntNum(1)
  /\ \A i \in 1..48 :
       /\ models[i].window = 5 + ((i - 1) % 15)
       /\ models[i].threshold = Num(50 + (i - 1), 100)
  /\ \A i \in 1..30 :
       /\ models[48 + i].lookback = 10 + ((i - 1) % 20)
       /\ models[48 + i].deviation = Num(100 + 5 * (i - 1), 100)
  /\ \A i \in 1..24 : models[78 + i].patternLength = 3 + ((i - 1) % 7)
  /\ \A i \in 1..18 : models[102 + i].method = (i - 1) % 4

\* A call has returned and the population is the one constructed.
C4_Witness ==
  /\ prediction.state = "resolved"
  /\ prediction.value.modelCount = 120
  /\ Len(models) = 120

(***************************************************************************)
(* SpecStake: calculateStake on a grid of arguments                        *)
(***************************************************************************)
MaxConfidence == 100
MaxStrengthSteps == 10

\* Confidences in quarters of a point, and a NaN; strengths in twentieths.
Confidences == {Num(k, 4) : k \in 0..(4 * MaxConfidence)} \cup {NaN}
Strengths == {Num(k, 20) : k \in 0..MaxStrengthSteps}

InitStake ==
  /\ models = initializeModels
  /\ historicalData = <<>>
  /\ prediction = NoResult
  /\ IdleConc
  /\ stakeArgs \in Confidences \X Strengths
  /\ stakeResult = NoStake
  /\ NewHandlers
  /\ IdleVote

CallStake ==
  /\ stakeResult = NoStake
  /\ stakeResult' = calculateStake(stakeArgs[1], stakeArgs[2])
  /\ UNCHANGED <<engineVars, concVars, stakeArgs, voteVars, handlerVars>>

NextStake == CallStake

SpecStake == InitStake /\ [][NextStake]_vars

\* The hundredths of (confidence/100) * (1 + 2*trendStrength) * tenths/10,
\* rounded to the nearest, halves up.
StakeHundredths(c, t, tenths) ==
  LET num == c.n * (t.d + 2 * t.n) * tenths
      den == 100 * c.d * t.d * 10
  IN (2 * num * 100 + den) \div (2 * den)

\* C10: the level is HIGH_CONFIDENCE with risk LOW and the full stake
\* exactly when confidence > 75 and trendStrength > 0.1; otherwise MEDIUM
\* with risk MEDIUM and 70% of the stake exactly when confidence > 65;
\* otherwise LOW with risk HIGH and 30% of the stake.
C10_StakeTiers ==
  stakeResult # NoStake =>
    LET c == stakeArgs[1]
        t == stakeArgs[2]
        high == c.k = "num" /\ c.n > 75 * c.d /\ 10 * t.n > t.d
        medium == ~high /\ c.k = "num" /\ c.n > 65 * c.d
        tenths == IF high THEN 10 ELSE IF medium THEN 7 ELSE 3
    IN /\ (stakeResult.level = "HIGH_CONFIDENCE") <=> high
       /\ (stakeResult.level = "MEDIUM") <=> medium
       /\ (stakeResult.level = "LOW") <=> (~high /\ ~medium)
       /\ stakeResult.risk = (IF high THEN "LOW" ELSE IF medium THEN "MEDIUM" ELSE "HIGH")
       /\ (c = IntNum(70) /\ t = Zero) => stakeResult.level = "MEDIUM"
       /\ c = IntNum(40) => (stakeResult.level = "LOW" /\ stakeResult.risk = "HIGH")
       /\ c.k = "num" =>
            /\ stakeResult.amount.text = "digits"
            /\ Hundredths(stakeResult.amount) = StakeHundredths(c, t, tenths)

\* calculateStake(80, 0.2) has returned the full stake 1.12 at HIGH_CONFIDENCE.
C10_Witness ==
  /\ stakeArgs = <<IntNum(80), Num(2, 10)>>
  /\ stakeResult.level = "HIGH_CONFIDENCE"
  /\ stakeResult.risk = "LOW"
  /\ Hundredths(stakeResult.amount) = 112

(***************************************************************************)
(* SpecConc: one predictNextOutcome call in steps.  this.models.map runs   *)
(* every async callback up to its await: each model.predict has run and    *)
(* its callback is suspended (or its promise is rejected, when predict     *)
(* raised).  The callbacks then resume one at a time; the next to resume   *)
(* is the first or the last of those still suspended, which allows 2^119   *)
(* orders of completion.  Promise.all settles once all promises are        *)
(* fulfilled or one is rejected.                                           *)
(***************************************************************************)
Rec(n, o) == [issue |-> 0, number |-> n, outcome |-> o]

ConcInputs ==
  { <<>>,
    Hist(Rec(0, "BIG"), Rec(0, "BIG"), Rec(1, "SMALL"), 7),
    Hist(Rec(1, "BIG"), Rec(0, "SMALL"), Rec(1, "BIG"), MinHistory) }

Suspended(sl) == {i \in 1..Len(sl) : sl[i].st = "suspended"}

\* The first and the last of the suspended callbacks.
Ends(sl) ==
  LET s == Suspended(sl)
  IN IF s = {} THEN {}
     ELSE {CHOOSE i \in s : \A j \in s : i <= j, CHOOSE i \in s : \A j \in s : i >= j}

SomeRejected(sl) == {i \in 1..Len(sl) : sl[i].st = "rejected"} # {}

\* Mutant: Promise.all settles with the first fulfilled promise.
SomeFulfilled(sl) == {i \in 1..Len(sl) : sl[i].st = "fulfilled"} # {}

\* Promise.all resolves: every promise is fulfilled.
AllFulfilled(sl) == \A i \in 1..Len(sl) : sl[i].st = "fulfilled"

\* The values of the fulfilled promises, in the order of this.models.
FulfilledEntries(sl) ==
  LET done == SelectSeq(sl, LAMBDA x : x.st = "fulfilled")
  IN ArrayOf([i \in 1..Len(done) |-> done[i].entry])

InitConc ==
  /\ models = initializeModels
  /\ historicalData \in ConcInputs
  /\ prediction = NoResult
  /\ callPc = "idle"
  /\ slots = [i \in 1..Len(initializeModels) |-> NoSlot]
  /\ evals = [i \in 1..Len(initializeModels) |-> 0]
  /\ lastResumed = 0
  /\ IdleStake
  /\ NewHandlers
  /\ IdleVote

\* this.models.map(async model => ({ ..., prediction: await model.predict(d) }))
StartCall ==
  /\ callPc = "idle"
  /\ slots' = ArrayOf([i \in 1..Len(models) |->
                 LET e == Entry(models[i], historicalData)
                 IN [st |-> IF e.prediction = "THROW" THEN "rejected" ELSE "suspended",
                     entry |-> e]])
  /\ evals' = [i \in 1..Len(models) |-> evals[i] + 1]
  /\ callPc' = "awaiting"
  /\ UNCHANGED <<engineVars, lastResumed, stakeVars, voteVars, handlerVars>>

\* The callback of model i resumes after its await and returns its entry.
Resume(i) ==
  /\ callPc # "idle"
  /\ slots[i].st = "suspended"
  /\ slots' = [slots EXCEPT ![i].st = "fulfilled"]
  /\ lastResumed' = i
  /\ UNCHANGED <<engineVars, callPc, evals, stakeVars, voteVars, handlerVars>>

\* Promise.all resolves and predictNextOutcome aggregates and returns.
PromiseAllResolves ==
  /\ callPc = "awaiting"
  /\ AllFulfilled(slots)
  /\ prediction' = Resolved(Aggregate(FulfilledEntries(slots), historicalData,
                                      Len(models)))
  /\ callPc' = "done"
  /\ UNCHANGED <<models, historicalData, slots, evals, lastResumed, stakeVars, voteVars, handlerVars>>

\* Promise.all rejects and predictNextOutcome rejects with it.
PromiseAllRejects ==
  /\ callPc = "awaiting"
  /\ SomeRejected(slots)
  /\ prediction' = Rejected
  /\ callPc' = "done"
  /\ UNCHANGED <<models, historicalData, slots, evals, lastResumed, stakeVars, voteVars, handlerVars>>

NextConc ==
  \/ StartCall
  \/ \E i \in Ends(slots) : Resume(i)
  \/ PromiseAllResolves
  \/ PromiseAllRejects

SpecConc == InitConc /\ [][NextConc]_vars

\* C5: in a call that returns, whatever the order in which the callbacks
\* completed, every model was evaluated exactly once and is counted once,
\* on exactly one side, before confidence and outcome are computed;
\* activeModels = modelCount = 120, and the result is that of evaluating
\* the models in sequence.
C5_EveryVoteOnce ==
  (callPc = "done" /\ prediction.state = "resolved") =>
    LET r == prediction.value
        mr == r.locals.modelResults
        bigs == {i \in 1..Len(mr) : mr[i].prediction = "BIG"}
        smalls == {i \in 1..Len(mr) : mr[i].prediction = "SMALL"}
    IN /\ \A i \in 1..Len(models) : evals[i] = 1 /\ slots[i].st = "fulfilled"
       /\ Len(mr) = Len(models)
       /\ \A i \in 1..Len(models) : mr[i].model = models[i].id
       /\ bigs \cup smalls = 1..Len(models)
       /\ r.locals.bigVotes = Num(Cardinality(bigs), 120)
       /\ r.locals.smallVotes = Num(Cardinality(smalls), 120)
       /\ r.modelBreakdown.activeModels = 120
       /\ r.modelCount = 120
       /\ prediction = predictNextOutcome(models, historicalData)

\* A call on 50 records has returned although the callback of the first
\* model was the last to complete.
C5_Witness ==
  /\ callPc = "done"
  /\ prediction.state = "resolved"
  /\ Len(historicalData) >= MinHistory
  /\ lastResumed = 1

(***************************************************************************)
(* SpecHandler: the two handlers.  An invocation runs from one await to    *)
(* the next in a step; NumSlots invocations can be in progress at a time   *)
(* and MaxRequests are made in all.  The upstream answers each fetch in    *)
(* any of the ways of UpstreamOutcomes, the clock advances by Tick, the    *)
(* Redis connection is made or fails, the client emits errors, and a set   *)
(* is fulfilled or rejected.                                               *)
(***************************************************************************)
MaxFeedExtra == 0
MaxTicks == 1
MaxRequests == 3

\* Result strings of the upstream: "49", "50,7" and "x".
Result49 == <<"4", "9">>
Result50 == <<"5", "0", ",", "7">>
ResultBad == <<"x">>

\* A list of the upstream, oldest first; a list of fewer than ten items
\* carries results that are not numbers.
Feed(len) ==
  ArrayOf([i \in 1..len |->
    [issue |-> i,
     result |-> IF len < 10 THEN ResultBad
                ELSE IF i % 2 = 0 THEN Result50 ELSE Result49]])

FeedLens == {1, MinHistory - 1} \cup (MinHistory..(MinHistory + MaxFeedExtra))

\* The ways the upstream fails: fetch rejects, response.ok is false, the
\* payload has no data.data.list.
Failures == {"throw", "notOk", "invalid"}

UpstreamOutcomes ==
  {[kind |-> k, list |-> <<>>] : k \in Failures}
    \cup {[kind |-> "ok", list |-> Feed(n)] : n \in FeedLens}

Methods == {"GET", "OPTIONS"}

\* req.query.limit as parseInt sees it.
QueryLimits == {Undefined, <<"5">>}

InitHandler ==
  /\ models = initializeModels
  /\ historicalData = <<>>
  /\ prediction = NoResult
  /\ IdleConc
  /\ IdleStake
  /\ NewHandlers
  /\ IdleVote

\* An invocation is running: the promise it awaits is settled and its
\* continuation is queued as a microtask.  The event loop delivers no
\* request, no answer of the upstream or of Redis and no event of the
\* client before the continuation has run to its next pending await.
Running == \E q \in DOMAIN reqs : reqs[q].pc \in {"fetched", "predicting", "stored"}

\* An invocation begins in the first free slot.
FreeSlot(r) == reqs[r].pc = "idle" /\ \A q \in 1..(r - 1) : reqs[q].pc # "idle"

\* fetchHistoricalData(limit) of the fetcher of handler h up to its first
\* await: it returns the cached records while they are fresh, and calls
\* fetch otherwise.
StartFetch(req, h, limit) ==
  IF CacheFresh(fetchers[h], now)
  THEN [req EXCEPT !.pc = "fetched", !.limit = limit, !.fetchNow = now,
                   !.upstream = "cache",
                   !.fetch = Resolved(Slice(fetchers[h].cachedData.data, 0, limit))]
  ELSE [req EXCEPT !.pc = "fetching", !.limit = limit, !.fetchNow = now]

\* predict.js handler, up to await dataFetcher.fetchHistoricalData()
PredictRequest(r, method) ==
  /\ started < MaxRequests
  /\ ~Running
  /\ FreeSlot(r)
  /\ started' = started + 1
  /\ reqs' = [reqs EXCEPT ![r] =
       IF method = "OPTIONS"
       THEN [IdleReq EXCEPT !.handler = "predict", !.method = method,
                            !.pc = "done", !.response = EmptyResponse]
       ELSE StartFetch([IdleReq EXCEPT !.handler = "predict", !.method = method],
                       "predict", 200)]
  /\ UNCHANGED <<engineVars, concVars, stakeVars, voteVars, now, fetchers, redisClient,
                 redisStore, localCache, predictionCache, engineCalls>>

\* history.js handler, up to await dataFetcher.fetchHistoricalData(limit)
HistoryRequest(r, method, query) ==
  /\ started < MaxRequests
  /\ ~Running
  /\ FreeSlot(r)
  /\ started' = started + 1
  /\ reqs' = [reqs EXCEPT ![r] =
       IF method = "OPTIONS"
       THEN [IdleReq EXCEPT !.handler = "history", !.method = method,
                            !.pc = "done", !.response = EmptyResponse]
       ELSE StartFetch([IdleReq EXCEPT !.handler = "history", !.method = method],
                       "history", OrElse(parseInt(query), IntNum(100)).n)]
  /\ UNCHANGED <<engineVars, concVars, stakeVars, voteVars, now, fetchers, redisClient,
                 redisStore, localCache, predictionCache, engineCalls>>

\* fetchHistoricalData from its fetch to its return: the upstream answers
\* with u.
FetchSettles(r, u) ==
  /\ reqs[r].pc = "fetching"
  /\ ~Running
  /\ LET h == reqs[r].handler
     IN IF u.kind = "ok"
        THEN LET cached == TransformList(u.list)
             IN /\ fetchers' = [fetchers EXCEPT ![h] =
                     [cachedData |-> SomeData(cached),
                      lastFetchTime |-> reqs[r].fetchNow]]
                /\ reqs' = [reqs EXCEPT ![r].pc = "fetched",
                                        ![r].upstream = u.kind,
                                        ![r].fetch = Resolved(Slice(cached, 0, reqs[r].limit))]
        ELSE /\ UNCHANGED fetchers
             /\ reqs' = [reqs EXCEPT ![r].pc = "fetched",
                                     ![r].upstream = u.kind,
                                     ![r].fetch = fetchCatch(fetchers[h], reqs[r].limit)]
  /\ UNCHANGED <<engineVars, concVars, stakeVars, voteVars, now, redisClient,
                 redisStore, localCache, predictionCache, started, engineCalls>>

\* predict.js handler, from the fetched history to
\* await engine.predictNextOutcome(historicalData)
PredictAfterFetch(r) ==
  /\ reqs[r].handler = "predict"
  /\ reqs[r].pc = "fetched"
  /\ LET req == reqs[r]
     IN IF req.fetch.state = "rejected"
        THEN /\ reqs' = [reqs EXCEPT ![r].pc = "done",
                                     ![r].response = PredictionFailedResponse]
             /\ UNCHANGED <<predictionCache, engineCalls>>
        ELSE IF InsufficientData(req.fetch.value)
        THEN /\ reqs' = [reqs EXCEPT ![r].pc = "done",
                                     ![r].response = InsufficientDataResponse]
             /\ UNCHANGED <<predictionCache, engineCalls>>
        ELSE LET data == req.fetch.value
                 lastResult == data[1]
                 lastNumber == parseInt(SplitFirst(lastResult.result))
                 lastActualOutcome == ActualOutcome(lastNumber)
             IN /\ predictionCache' = Score(predictionCache, lastActualOutcome)
                /\ engineCalls' = engineCalls + 1
                /\ reqs' = [reqs EXCEPT
                     ![r].pc = "predicting",
                     ![r].winLossResult = WinLoss(predictionCache, lastActualOutcome),
                     ![r].lastNumber = lastNumber,
                     ![r].lastActualOutcome = lastActualOutcome,
                     ![r].prediction = predictNextOutcome(models, data)]
  /\ UNCHANGED <<engineVars, concVars, stakeVars, voteVars, now, fetchers, redisClient,
                 redisStore, localCache, started>>

\* predict.js handler, from the engine's result to the await inside
\* cache.storePrediction(predictionCache); localCache.set keeps the
\* predictionCache object itself, redisClient.set is given its JSON text.
PredictAfterEngine(r) ==
  /\ reqs[r].handler = "predict"
  /\ reqs[r].pc = "predicting"
  /\ LET req == reqs[r]
     IN IF req.prediction.state = "rejected"
        THEN /\ reqs' = [reqs EXCEPT ![r].pc = "done",
                                     ![r].response = PredictionFailedResponse]
             /\ UNCHANGED <<predictionCache, localCache>>
        ELSE LET p == req.prediction.value
                 lastResult == req.fetch.value[1]
                 updated == [predictionCache EXCEPT
                   !.lastPrediction = [isNull |-> FALSE,
                                       prediction |-> p.outcome,
                                       confidence |-> p.confidence,
                                       issueNumber |-> lastResult.issue],
                   !.lastResult = [isNull |-> FALSE,
                                   outcome |-> req.lastActualOutcome,
                                   number |-> req.lastNumber,
                                   issue |-> lastResult.issue]]
             IN /\ predictionCache' = updated
                /\ localCache' = [isSet |-> TRUE, timestamp |-> now]
                /\ reqs' = [reqs EXCEPT ![r] =
                     IF redisClient # "null"
                     THEN [req EXCEPT !.pc = "storing",
                                      !.setValue = [isSet |-> TRUE, data |-> updated,
                                                    timestamp |-> now]]
                     ELSE [req EXCEPT !.pc = "stored", !.store = "skipped",
                                      !.storeExit = "returned"]]
  /\ UNCHANGED <<engineVars, concVars, stakeVars, voteVars, now, fetchers, redisClient,
                 redisStore, started, engineCalls>>

\* redisClient.set(...) is fulfilled or rejected and storePrediction ends
\* (the key's expiry after 300 s is left out).
RedisSetSettles(r, fulfilled) ==
  /\ reqs[r].pc = "storing"
  /\ ~Running
  /\ redisStore' = IF fulfilled THEN reqs[r].setValue ELSE redisStore
  /\ reqs' = [reqs EXCEPT ![r].pc = "stored",
                          ![r].store = IF fulfilled THEN "fulfilled" ELSE "rejected",
                          ![r].storeExit = storePredictionCatch(fulfilled)]
  /\ UNCHANGED <<engineVars, concVars, stakeVars, voteVars, now, fetchers, redisClient,
                 localCache, predictionCache, started, engineCalls>>

\* predict.js handler, from the return of storePrediction to its response
PredictRespond(r) ==
  /\ reqs[r].handler = "predict"
  /\ reqs[r].pc = "stored"
  /\ reqs' = [reqs EXCEPT ![r].pc = "done",
                          ![r].response =
                            IF reqs[r].storeExit = "thrown" THEN PredictionFailedResponse
                            ELSE PredictionResponse(predictionCache, reqs[r])]
  /\ UNCHANGED <<engineVars, concVars, stakeVars, voteVars, now, fetchers, redisClient,
                 redisStore, localCache, predictionCache, started,
                 engineCalls>>

\* history.js handler, from the fetched history to its response
HistoryAfterFetch(r) ==
  /\ reqs[r].handler = "history"
  /\ reqs[r].pc = "fetched"
  /\ reqs' = [reqs EXCEPT ![r].pc = "done",
                          ![r].response =
                            IF reqs[r].fetch.state = "rejected" THEN HistoryFailedResponse
                            ELSE HistoryResponse(reqs[r].fetch.value)]
  /\ UNCHANGED <<engineVars, concVars, stakeVars, voteVars, now, fetchers, redisClient,
                 redisStore, localCache, predictionCache, started,
                 engineCalls>>

\* The response has been sent and the slot is free again.
Close(r) ==
  /\ reqs[r].pc = "done"
  /\ reqs' = [reqs EXCEPT ![r] = IdleReq]
  /\ UNCHANGED <<engineVars, concVars, stakeVars, voteVars, now, fetchers, redisClient,
                 redisStore, localCache, predictionCache, started,
                 engineCalls>>

\* Time passes: one cache duration.
Tick ==
  /\ now < MaxTicks * CacheDuration
  /\ now' = now + CacheDuration
  /\ UNCHANGED <<engineVars, concVars, stakeVars, voteVars, fetchers, redisClient,
                 redisStore, localCache, predictionCache, reqs, started, engineCalls>>

\* initRedis: await this.redisClient.connect() is fulfilled
RedisConnects ==
  /\ redisClient = "connecting"
  /\ ~Running
  /\ redisClient' = "ready"
  /\ UNCHANGED <<engineVars, concVars, stakeVars, voteVars, now, fetchers, redisStore,
                 localCache, predictionCache, reqs, started, engineCalls>>

\* initRedis: connect() is rejected and the catch drops the client
RedisConnectFails ==
  /\ redisClient = "connecting"
  /\ ~Running
  /\ redisClient' = "null"
  /\ UNCHANGED <<engineVars, concVars, stakeVars, voteVars, now, fetchers, redisStore,
                 localCache, predictionCache, reqs, started, engineCalls>>

\* The client emits 'error', at any moment, and the listener drops the client
RedisErrorEvent ==
  /\ ~Running
  /\ redisClient' = "null"
  /\ UNCHANGED <<engineVars, concVars, stakeVars, voteVars, now, fetchers, redisStore,
                 localCache, predictionCache, reqs, started, engineCalls>>

NextHandler ==
  \/ \E r \in Slots, method \in Methods : PredictRequest(r, method)
  \/ \E r \in Slots, method \in Methods, query \in QueryLimits :
       HistoryRequest(r, method, query)
  \/ \E r \in Slots, u \in UpstreamOutcomes : FetchSettles(r, u)
  \/ \E r \in Slots : PredictAfterFetch(r)
  \/ \E r \in Slots : PredictAfterEngine(r)
  \/ \E r \in Slots, fulfilled \in BOOLEAN : RedisSetSettles(r, fulfilled)
  \/ \E r \in Slots : PredictRespond(r)
  \/ \E r \in Slots : HistoryAfterFetch(r)
  \/ \E r \in Slots : Close(r)
  \/ Tick
  \/ RedisConnects
  \/ RedisConnectFails
  \/ RedisErrorEvent

SpecHandler == InitHandler /\ [][NextHandler]_vars

(***************************************************************************)
(* Properties of the handlers                                              *)
(***************************************************************************)
\* The invocations that have sent their response.
Answered == {r \in Slots : reqs[r].pc = "done"}

\* C6: when the upstream fails (the fetch throws, the response is not OK
\* or the payload is invalid), each of the two GET handlers answers with a
\* payload whose status is "error".
C6_UpstreamFailureAnswersError ==
  \A r \in Answered :
    reqs[r].upstream \in Failures => reqs[r].response.body.status = "error"

C8_ShortHistorySkipsPrediction ==
  [][\A r \in Slots :
       (/\ reqs[r].handler = "predict"
        /\ reqs[r].pc = "fetched"
        /\ reqs[r].fetch.state = "resolved"
        /\ Len(reqs[r].fetch.value) < MinHistory
        /\ reqs'[r] # reqs[r])
         => /\ reqs'[r].pc = "done"
            /\ reqs'[r].response = InsufficientDataResponse
            /\ engineCalls' = engineCalls
            /\ predictionCache' = predictionCache
            /\ localCache' = localCache
            /\ redisStore' = redisStore]_vars

\* A predict invocation that fetched 49 records has answered "Insufficient
\* data"; no engine call was made, nothing is stored and the statistics are
\* those of the start.
C8_Witness ==
  \E r \in Answered :
    /\ reqs[r].handler = "predict"
    /\ reqs[r].fetch.state = "resolved"
    /\ Len(reqs[r].fetch.value) = MinHistory - 1
    /\ reqs[r].response = InsufficientDataResponse
    /\ engineCalls = 0
    /\ predictionCache = NewPredictionCache
    /\ localCache = NoEntry
    /\ redisStore = NoEntry

\* C9: whatever happens to the cache store (the connection fails at
\* start-up, the client emits an error at any moment, the set is rejected),
\* a predict invocation that reached storePrediction answers 200 with status
\* "success" and the prediction the engine returned; the local cache holds
\* the entry, and Redis holds one whenever the set was fulfilled.
C9_StoreFailureKeepsResponse ==
  \A r \in Answered :
    (reqs[r].handler = "predict" /\ reqs[r].store # "none") =>
      /\ reqs[r].response.code = 200
      /\ reqs[r].response.body.status = "success"
      /\ reqs[r].response.body.current_prediction.outcome
           = reqs[r].prediction.value.outcome
      /\ reqs[r].response.body.current_prediction.confidence
           = reqs[r].prediction.value.confidence
      /\ localCache.isSet
      /\ reqs[r].store = "fulfilled" => redisStore.isSet

\* A predict invocation whose set was rejected has answered with status
\* "success"; Redis holds nothing.
C9_Witness ==
  \E r \in Answered :
    /\ reqs[r].handler = "predict"
    /\ reqs[r].store = "rejected"
    /\ reqs[r].response.body.status = "success"
    /\ ~redisStore.isSet

(***************************************************************************)
(* SpecModel: model.predict of one model, on histories of three shapes     *)
(***************************************************************************)
MaxBase == 2
MaxStep == 2

\* A record as the provider builds it: the outcome follows from the number.
RecordOf(n) == Rec(n, IF n >= 50 THEN "BIG" ELSE "SMALL")

\* `len` records, newest first.  The newest `k` climb by `d` a draw (fall,
\* when d < 0) to the level of the 15 newest, 20 + v; the records older than
\* those 15 lie `t` higher.
RsiHist(len, v, d, k, t) ==
  [i \in 1..len |->
     RecordOf(IF i > 15 THEN 20 + v + t
              ELSE 20 + v + d * (IF k > i THEN k - i ELSE 0))]

RsiInputs ==
  {RsiHist(len, v, d, k, t) : len \in {15, 16, 21}, v \in 1..MaxBase,
                              d \in {-1, 0, 1}, k \in {2, 8, 15}, t \in {0, 3}}

\* 20 records, newest first, whose numbers grow by d a draw from v, the
\* five newest lifted by `jump`.
RisingHist(v, d, jump) ==
  [i \in 1..20 |-> RecordOf(v + (20 - i) * d + (IF i <= 5 THEN jump ELSE 0))]

\* d = 0 is the flat history, which does not increase.
RisingInputs ==
  {RisingHist(v, d, jump) : v \in 1..MaxBase, d \in 0..MaxStep,
                            jump \in {0, 5, 10, 50}}

\* 60 records, newest first, with the numbers a and b in turn.
SwingHist(a, b) == [i \in 1..60 |-> RecordOf(IF i % 2 = 1 THEN a ELSE b)]

SwingInputs == {SwingHist(70, 30), SwingHist(30, 70), SwingHist(50, 49),
                SwingHist(49, 50), SwingHist(70, 50)}

ModelInputs == RsiInputs \cup RisingInputs \cup SwingInputs

InitModel ==
  /\ models = initializeModels
  /\ historicalData \in ModelInputs
  /\ prediction = NoResult
  /\ IdleConc
  /\ IdleStake
  /\ NewHandlers
  /\ modelIndex \in 1..Len(initializeModels)
  /\ vote = "none"

\* model.predict(historicalData) of the model at modelIndex (index 0 of the
\* code is 1 here)
CallModel ==
  /\ vote' = ModelPredict(models[modelIndex], historicalData)
  /\ UNCHANGED <<engineVars, concVars, stakeVars, modelIndex, handlerVars>>

SpecModel == InitModel /\ [][CallModel]_vars

(***************************************************************************)
(* Properties of single models                                             *)
(***************************************************************************)
\* The model whose call has returned, of the given family.
Called(type) == vote # "none" /\ models[modelIndex].type = type

\* None of the 14 most recent changes of a history of 15 records or more
\* is a loss.
NoLoss14(data) ==
  /\ Len(data) >= 15
  /\ \A i \in 1..14 : data[i].number - data[i + 1].number >= 0

\* C11: on a history of at least 15 records none of whose 14 most recent
\* changes is a loss (the flat history included), the RSI model (method 1)
\* votes BIG and does not raise.
C11_NoLossVotesBig ==
  (/\ Called("STATISTICAL")
   /\ models[modelIndex].method = 1
   /\ NoLoss14(historicalData))
    => vote = "BIG"

\* 20 records of positive numbers that increase strictly over time (the
\* newest, index 0 of the code, holds the largest).
Increasing20(data) ==
  /\ Len(data) = 20
  /\ data[20].number > 0
  /\ \A i \in 1..19 : data[i].number > data[i + 1].number

\* The relative difference of the means of the two windows of size w.
RelativeDifference(data, w) ==
  LET recentAvg == mean(Numbers(Slice(data, 0, w)))
      previousAvg == mean(Numbers(Slice(data, w, w * 2)))
  IN JsDiv(JsSub(recentAvg, previousAvg), previousAvg)

\* C12: a trend-following model of window 5, whatever its threshold,
\* returns BIG on 20 records of positive numbers that increase strictly over
\* time, be it by the relative difference of the window means or by the
\* momentum.
C12_RisingVotesBig ==
  (/\ Called("TREND_FOLLOWING")
   /\ models[modelIndex].window = 5
   /\ Increasing20(historicalData))
    => vote = "BIG"

\* A model of window 5 has voted BIG on an increasing history whose
\* relative difference does not exceed its threshold: the momentum decided.
C12_Witness ==
  /\ Called("TREND_FOLLOWING")
  /\ models[modelIndex].window = 5
  /\ Increasing20(historicalData)
  /\ ~JsGt(JsAbs(RelativeDifference(historicalData, 5)), models[modelIndex].threshold)
  /\ vote = "BIG"

\* 60 records whose outcomes alternate strictly.
Alternating60(data) ==
  /\ Len(data) = 60
  /\ \A i \in 1..59 : data[i].outcome # data[i + 1].outcome

Opposite(outcome) == IF outcome = "BIG" THEN "SMALL" ELSE "BIG"

\* C13: on 60 records of strictly alternating outcomes every
\* pattern-recognition model (patternLength 3 to 9) finds at least one
\* match in its scan and votes the opposite of the most recent outcome;
\* the family, whose weights sum to 0.2, so votes as one.
C13_AlternatingVotesOpposite ==
  (Called("PATTERN_RECOGNITION") /\ Alternating60(historicalData)) =>
    LET patternLength == models[modelIndex].patternLength
    IN /\ patternLength \in 3..9
       /\ PatternHits(historicalData, patternLength, "BIG")
            + PatternHits(historicalData, patternLength, "SMALL") >= 1
       /\ vote = Opposite(historicalData[1].outcome)
       /\ WeightSum(models, 1, Len(models), {"PATTERN_RECOGNITION"}) = Num(1, 5)

\* The model of patternLength 9 has voted SMALL on an alternating history
\* whose most recent outcome is BIG.
C13_Witness ==
  /\ Called("PATTERN_RECOGNITION")
  /\ models[modelIndex].patternLength = 9
  /\ Alternating60(historicalData)
  /\ historicalData[1].outcome = "BIG"
  /\ vote = "SMALL"

(***************************************************************************)
(* Properties of the statistics                                            *)
(***************************************************************************)
\* The counters of the statistics object.
Counters(pc) == <<pc.totalPredictions, pc.wins, pc.winStreak, pc.lossStreak>>

\* C14: a stored prediction is scored only against a draw newer than the
\* one it was computed from: the step a predict invocation takes on a
\* fetched history whose latest record has the issue of
\* lastPrediction.issueNumber leaves totalPredictions, wins, winStreak and
\* lossStreak as they are.
C14_SameIssueNotScored ==
  [][\A r \in Slots :
       (/\ reqs[r].handler = "predict"
        /\ reqs[r].pc = "fetched"
        /\ reqs[r].fetch.state = "resolved"
        /\ ~InsufficientData(reqs[r].fetch.value)
        /\ ~predictionCache.lastPrediction.isNull
        /\ reqs[r].fetch.value[1].issue = predictionCache.lastPrediction.issueNumber
        /\ reqs'[r] # reqs[r])
         => Counters(predictionCache') = Counters(predictionCache)]_vars

(***************************************************************************)
(* SpecRace: predict invocations in progress together.  The upstream       *)
(* answers every fetch with a list of 50 or of 51 items, Redis connects,   *)
(* and a set is fulfilled or rejected; the invocations interleave where    *)
(* they await the upstream and Redis.                                      *)
(***************************************************************************)
MaxConcurrent == 2

RaceOutcomes ==
  {[kind |-> "ok", list |-> Feed(n)] : n \in {MinHistory, MinHistory + 1}}

InitRace ==
  /\ models = initializeModels
  /\ historicalData = <<>>
  /\ prediction = NoResult
  /\ IdleConc
  /\ IdleStake
  /\ IdleVote
  /\ now = 0
  /\ fetchers = [h \in {"predict", "history"} |-> NewFetcher]
  /\ redisClient = "connecting"
  /\ redisStore = NoEntry
  /\ localCache = NoEntry
  /\ predictionCache = NewPredictionCache
  /\ reqs = [r \in 1..MaxConcurrent |-> IdleReq]
  /\ started = 0
  /\ engineCalls = 0

NextRace ==
  \/ \E r \in 1..MaxConcurrent : PredictRequest(r, "GET")
  \/ \E r \in 1..MaxConcurrent, u \in RaceOutcomes : FetchSettles(r, u)
  \/ \E r \in 1..MaxConcurrent : PredictAfterFetch(r)
  \/ \E r \in 1..MaxConcurrent : PredictAfterEngine(r)
  \/ \E r \in 1..MaxConcurrent, fulfilled \in BOOLEAN : RedisSetSettles(r, fulfilled)
  \/ \E r \in 1..MaxConcurrent : PredictRespond(r)
  \/ \E r \in 1..MaxConcurrent : Close(r)
  \/ Tick
  \/ RedisConnects

SpecRace == InitRace /\ [][NextRace]_vars

\* C15: however predict invocations interleave at their awaits, every
\* success response agrees with the scoring its own invocation performed:
\* previous_prediction_result WIN comes with a win_streak of at least 1,
\* LOSS with a win_streak of 0, and wins + losses = total_predictions.
C15_ResponseMatchesOwnScoring ==
  \A r \in DOMAIN reqs :
    (/\ reqs[r].pc = "done"
     /\ reqs[r].handler = "predict"
     /\ reqs[r].response.body.status = "success") =>
      LET body == reqs[r].response.body
      IN /\ body.previous_prediction_result = "WIN"
              => body.statistics.win_streak >= 1
         /\ body.previous_prediction_result = "LOSS"
              => body.statistics.win_streak = 0
         /\ body.statistics.wins + body.statistics.losses
              = body.statistics.total_predictions

=============================================================================
